---- MODULE Spec2Model ----
(***************************************************************************)
(* A model of the JioSaavn downloader.                                     *)
(*                                                                         *)
(*   Spec         one session of the src/src package: main() calling       *)
(*                process_url(), with the yt-dlp probe, the per-track loop *)
(*                (choose_outputs, download_with_progress, tag_flac /      *)
(*                tag_mp3) and the final statistics.                       *)
(*   SpecResolve  extract_song_info_from_url of the jiosaavn_downloader    *)
(*                package applied to a fetched page.                       *)
(*                                                                         *)
(* Text is a sequence of one-character strings, so that sanitize and the   *)
(* filename rule are computed as the code computes them.  A missing key,   *)
(* None and "" are all falsy in the code's `x.get(k) or ...` chains and    *)
(* are written as the empty sequence; a missing or zero number is 0.       *)
(***************************************************************************)
EXTENDS Integers, Sequences, FiniteSets, TLC

\* ------------------------------------------------------------------ bounds

\* The longest playlist the probe returns.
MaxEntries == 3

\* ------------------------------------------------------------------ text

\* sep.join(parts)
RECURSIVE Join(_, _)
Join(sep, parts) ==
    IF parts = <<>> THEN <<>>
    ELSE IF Len(parts) = 1 THEN parts[1]
    ELSE parts[1] \o sep \o Join(sep, Tail(parts))

\* The characters of the class [\\/:*?"<>|] in sanitize's pattern.
Disallowed == {"\\", "/", ":", "*", "?", "\"", "<", ">", "|"}

\* What str.strip() removes.
Whitespace == {" ", "\t", "\n"}

\* s with its leading run of disallowed characters dropped.
RECURSIVE DropDisallowed(_)
DropDisallowed(s) ==
    IF s # <<>> /\ Head(s) \in Disallowed THEN DropDisallowed(Tail(s)) ELSE s

\* re.sub(r'[\\/:*?"<>|]+', "_", s): every maximal run becomes one "_".
RECURSIVE SubRuns(_)
SubRuns(s) ==
    IF s = <<>> THEN <<>>
    ELSE IF Head(s) \in Disallowed
         THEN <<"_">> \o SubRuns(DropDisallowed(Tail(s)))
         ELSE <<Head(s)>> \o SubRuns(Tail(s))

RECURSIVE LStrip(_)
LStrip(s) ==
    IF s # <<>> /\ Head(s) \in Whitespace THEN LStrip(Tail(s)) ELSE s

RECURSIVE RStrip(_)
RStrip(s) ==
    IF s # <<>> /\ s[Len(s)] \in Whitespace
    THEN RStrip(SubSeq(s, 1, Len(s) - 1)) ELSE s

\* str.strip()
Strip(s) == RStrip(LStrip(s))

\* sanitize without its strip().
sanitize_NoStrip(name) == SubRuns(name)

sanitize(name) == Strip(SubRuns(name))

Digit(d) == <<"0", "1", "2", "3", "4", "5", "6", "7", "8", "9">>[d + 1]

\* str(n) of a natural number
RECURSIVE str(_)
str(n) == IF n < 10 THEN <<Digit(n)>> ELSE str(n \div 10) \o <<Digit(n % 10)>>

\* zfill that pads nothing.
zfill_NoPad(s, width) == s

\* s.zfill(width) of a string without a sign
RECURSIVE zfill(_, _)
zfill(s, width) == IF Len(s) >= width THEN s ELSE zfill(<<"0">> \o s, width)

\* The literals of the code.
UnknownArtist == <<"U", "n", "k", "n", "o", "w", "n", " ", "A", "r", "t", "i", "s", "t">>
UnknownAlbum == <<"U", "n", "k", "n", "o", "w", "n", " ", "A", "l", "b", "u", "m">>
UnknownTitle == <<"U", "n", "k", "n", "o", "w", "n", " ", "T", "i", "t", "l", "e">>
Dash == <<" ", "-", " ">>
Semi == <<";", " ">>

\* ------------------------------------------------------------------ JSON

\* A JSON value as Python holds it, with Absent for a key the dict lacks.
\* A dict is one with at most the keys name and url.
Absent == [k |-> "absent"]
Null == [k |-> "null"]
Str(s) == [k |-> "str", s |-> s]
Num(n) == [k |-> "num", n |-> n]
List(items) == [k |-> "list", items |-> items]
Dict(name, link) == [k |-> "dict", name |-> name, url |-> link]

\* bool(v)
Truthy(v) ==
    CASE v.k = "str" -> v.s # <<>>
      [] v.k = "num" -> v.n # 0
      [] v.k = "list" -> v.items # <<>>
      [] v.k = "dict" -> v.name # Absent \/ v.url # Absent
      [] OTHER -> FALSE

\* d.get(key, default), given d[key] or Absent
Get(v, default) == IF v = Absent THEN default ELSE v

\* d.get(key): None for a missing key
GetNone(v) == Get(v, Null)

Quoted(s) == <<"'">> \o s \o <<"'">>

\* repr(v) and str(v), as text (of strings without quotes or backslashes)
RECURSIVE repr(_)
repr(v) ==
    CASE v.k = "str" -> Quoted(v.s)
      [] v.k = "num" -> str(v.n)
      [] v.k = "list" ->
            <<"[">> \o Join(<<",", " ">>,
                            [i \in 1..Len(v.items) |-> repr(v.items[i])])
                    \o <<"]">>
      [] v.k = "dict" ->
            <<"{">> \o Join(<<",", " ">>,
                 (IF v.name = Absent THEN <<>>
                  ELSE <<Quoted(<<"n", "a", "m", "e">>) \o <<":", " ">>
                           \o repr(v.name)>>)
                 \o (IF v.url = Absent THEN <<>>
                     ELSE <<Quoted(<<"u", "r", "l">>) \o <<":", " ">>
                              \o repr(v.url)>>))
                    \o <<"}">>
      [] OTHER -> <<"N", "o", "n", "e">>

py_str(v) == IF v.k = "str" THEN v ELSE Str(repr(v))

\* ------------------------------------------------------------------ entries

\* The entry None of a playlist ({} is handled alike: `not entry`).
NullEntry == [null |-> TRUE]

\* One entry of the probe's JSON with the keys the code reads.  artist,
\* artists and creator are JSON values (pick_artists looks at their shape);
\* the other text keys are strings; webpage_url and url say whether the key
\* holds a non-empty string.
Entry(title, artist, album, track_number) ==
    [null |-> FALSE, title |-> title, track |-> <<>>,
     artist |-> artist, artists |-> Absent, creator |-> Absent,
     album |-> album, album_name |-> <<>>, playlist |-> <<>>, series |-> <<>>,
     track_number |-> track_number, playlist_index |-> 0,
     playlist_autonumber |-> 0,
     type |-> "video", n_entries |-> 0, entries |-> <<>>,
     webpage_url |-> TRUE, url |-> FALSE]

\* a or b, on text
Or(a, b) == IF a # <<>> THEN a ELSE b

\* a.get("name", a) if isinstance(a, dict) else str(a)
ArtistName(a) == IF a.k = "dict" THEN Get(a.name, a) ELSE py_str(a)

\* The list pick_artists returns: its items are whatever the keys hold.
pick_artists(meta) ==
    IF Truthy(meta.artist) THEN <<meta.artist>>
    ELSE IF Truthy(meta.artists)
         THEN IF meta.artists.k = "list"
              THEN [i \in 1..Len(meta.artists.items) |->
                       ArtistName(meta.artists.items[i])]
              ELSE <<py_str(meta.artists)>>
    ELSE IF Truthy(meta.creator) THEN <<meta.creator>>
    ELSE <<Str(UnknownArtist)>>

\* The texts of a list of strings.
Texts(items) == [i \in 1..Len(items) |-> items[i].s]

\* TrackNum looking at playlist_index before track_number.
TrackNum_IndexFirst(entry) ==
    IF entry.playlist_index # 0 THEN str(entry.playlist_index)
    ELSE IF entry.track_number # 0 THEN str(entry.track_number)
    ELSE IF entry.playlist_autonumber # 0 THEN str(entry.playlist_autonumber)
    ELSE <<>>

\* The track number choose_outputs takes, as text (<<>> is None).
TrackNum(entry) ==
    IF entry.track_number # 0 THEN str(entry.track_number)
    ELSE IF entry.playlist_index # 0 THEN str(entry.playlist_index)
    ELSE IF entry.playlist_autonumber # 0 THEN str(entry.playlist_autonumber)
    ELSE <<>>

\* base / part of pathlib, below base_out_dir: a directory is the sequence
\* of its components, and base / "" is base.
Below(dir, part) == IF part = <<>> THEN dir ELSE Append(dir, part)

\* choose_outputs looking at the entry alone, not at force_album_layout.
choose_outputs_EntryOnly(entry, force_album_layout) ==
    LET artist_list == pick_artists(entry)
        raised == \E i \in 1..Len(artist_list) : artist_list[i].k # "str"
        artist == IF raised THEN <<>> ELSE Join(Semi, Texts(artist_list))
        album == Or(entry.album, Or(entry.album_name,
                     Or(entry.playlist, Or(entry.series, UnknownAlbum))))
        title == Or(entry.title, Or(entry.track, UnknownTitle))
        tracknum == TrackNum(entry)
        subdir == Below(<<>>,
                        IF entry.type = "playlist" \/ entry.n_entries > 1
                        THEN sanitize(album) ELSE <<>>)
        filename == IF tracknum # <<>>
                    THEN zfill(tracknum, 2) \o Dash \o sanitize(title)
                    ELSE IF artist # <<>>
                         THEN sanitize(artist) \o Dash \o sanitize(title)
                         ELSE sanitize(title)
    IN  [raised |-> raised,
         subdir |-> IF raised THEN <<>> ELSE subdir,
         filename |-> IF raised THEN <<>> ELSE filename,
         artists |-> artist_list,
         album |-> album, title |-> title, tracknum |-> tracknum]

\* choose_outputs without its mkdir (the caller's action makes the
\* directory): the directory below base_out_dir and the filename stem.
\* "; ".join(artist_list) raises TypeError when an item is no string.
choose_outputs(entry, force_album_layout) ==
    LET artist_list == pick_artists(entry)
        raised == \E i \in 1..Len(artist_list) : artist_list[i].k # "str"
        artist == IF raised THEN <<>> ELSE Join(Semi, Texts(artist_list))
        album == Or(entry.album, Or(entry.album_name,
                     Or(entry.playlist, Or(entry.series, UnknownAlbum))))
        title == Or(entry.title, Or(entry.track, UnknownTitle))
        tracknum == TrackNum(entry)
        subdir == IF force_album_layout
                  THEN Below(<<>>, sanitize(album))
                  ELSE Below(<<>>,
                             IF entry.type = "playlist" \/ entry.n_entries > 1
                             THEN sanitize(album) ELSE <<>>)
        filename == IF tracknum # <<>>
                    THEN zfill(tracknum, 2) \o Dash \o sanitize(title)
                    ELSE IF artist # <<>>
                         THEN sanitize(artist) \o Dash \o sanitize(title)
                         ELSE sanitize(title)
    IN  [raised |-> raised,
         subdir |-> IF raised THEN <<>> ELSE subdir,
         filename |-> IF raised THEN <<>> ELSE filename,
         artists |-> artist_list,
         album |-> album, title |-> title, tracknum |-> tracknum]

\* subdir / f"{filename}.{ext}"
FinalPath(plan, ext) == [dir |-> plan.subdir, name |-> plan.filename, ext |-> ext]

\* The extension process_url expects: "mp3" if to_mp3_320 else "flac".
Ext(mp3) == IF mp3 THEN "mp3" ELSE "flac"

\* ------------------------------------------------------------------ inputs

\* The tracks the probe may describe.
E1 == Entry(<<"a", "/">>, Str(<<"A", "l">>), <<"X">>, 0)
E2 == Entry(<<"b">>, Absent, <<>>, 3)
TrackPool == {E1, E2}
EntryPool == TrackPool \cup {NullEntry}

\* The sequences over S of length at most n.
SeqsUpTo(S, n) == UNION {[1..k -> S] : k \in 0..n}

\* What probe_info may return for a page: one track, or a playlist
\* container (marked by _type, or by an entry count above one).
Infos ==
    TrackPool
    \cup {[E1 EXCEPT !.type = "playlist", !.entries = es] :
             es \in SeqsUpTo(EntryPool, MaxEntries)}
    \cup {[E1 EXCEPT !.n_entries = 2, !.entries = es] :
             es \in SeqsUpTo(EntryPool, MaxEntries)}

\* The URL given on the command line: a JioSaavn song or album page, or
\* something that is neither.
Urls == {"jiosaavn", "unsupported"}

\* The percentages a progress line of yt-dlp may carry.
Percents == {50, 100}

\* ------------------------------------------------------------------ state

VARIABLES
    pc,                   \* where main / process_url stands
    url,                  \* args.url
    to_mp3_320,           \* args.mp3_320 (to_flac is its negation)
    album_layout,         \* args.album
    subprocess_started,   \* some yt-dlp process has been started
    info,                 \* what probe_info returned
    is_playlist,
    entries,
    total_tracks,
    successful_downloads,
    failed_downloads,
    idx,                  \* entries already taken by the for loop
    plan,                 \* what choose_outputs returned for the track
    proc,                 \* the download subprocess of run_stream
    last_percent,         \* download_with_progress's last parsed percentage
    rc,                   \* download_with_progress's return value
    exists,               \* final_path.exists() as process_url saw it
    tag,                  \* how tag_flac / tag_mp3 ended for the track
    recorded,             \* what the last loop iteration did to the tally
    files,                \* the audio files below out_dir
    dirs,                 \* the directories below out_dir
    tagged,               \* the files whose tags this session saved
    stats,                \* the rows create_stats_panel printed
    status,               \* the final status panel
    outcome,              \* how the session ended
    exit_code,            \* the process exit status (-1 while running)
    zero_exit_no_file,    \* some download exited 0 and left no file
    page,                 \* the page extract_song_info_from_url is given
    song_info,            \* what extract_song_info_from_url returned
    resolve_pc,           \* where extract_song_info_from_url stands
    plan_pc,              \* where the planning of names and paths stands
    raw,                  \* the text given to sanitize
    safe,                 \* sanitize(raw)
    safe_again,           \* sanitize(sanitize(raw))
    safe_title,           \* search_and_download's safe_title for raw
    item,                 \* the entry given to choose_outputs
    sibling,              \* another entry of the same playlist
    force,                \* choose_outputs's force_album_layout
    out,                  \* what choose_outputs returned for item
    out_sibling,          \* what choose_outputs returned for sibling
    tag_pc,               \* where the tagging function stands
    job,                  \* the function called, the file and the values it is given
    step,                 \* the number of the next field of the function
    written,              \* the fields set on the audio object
    embedded,             \* the cover art is on the audio object
    save_attempted,       \* audio.save() was called
    caught,               \* the field whose exception ended the function
    ext,                  \* the extension of the file being tagged
    pictures,             \* the picture blocks on the audio object
    file,                 \* the tags and pictures saved in the file
    file_first,           \* the file as the first tagging left it
    runs,                 \* the taggings of the file after the first
    dl_pc,                \* where JioSaavnDownloader.process_url stands
    song,                 \* what extract_song_info returned, in short
    fmt,                  \* the audio format asked for
    listing,              \* the files in output_dir
    cover_path,           \* process_url's cover_path
    made,                 \* this run's yt-dlp wrote the song's file
    downloaded_file,      \* what search_and_download returned
    tagged_file,          \* the file add_metadata was given
    success               \* what process_url returned

args == <<url, to_mp3_320, album_layout>>
session == <<info, is_playlist, entries, total_tracks>>
tally == <<successful_downloads, failed_downloads>>
track == <<plan, last_percent, rc, exists, tag>>
disk == <<files, dirs, tagged>>
report == <<stats, status>>

\* The variables of a session of src/src, and those of the resolver.
session_vars == <<pc, args, subprocess_started, session, tally, idx, track,
                  proc, recorded, disk, report, outcome, exit_code,
                  zero_exit_no_file>>
resolver_vars == <<page, song_info, resolve_pc>>
names == <<raw, safe, safe_again, safe_title>>
outputs == <<item, sibling, force, out, out_sibling>>
planner_vars == <<plan_pc, names, outputs>>
audio == <<written, embedded, save_attempted>>
stored == <<ext, pictures, file, file_first, runs>>
tagger_vars == <<tag_pc, job, step, audio, caught, stored>>
request == <<song, fmt>>
results == <<downloaded_file, tagged_file, success>>
song_vars == <<dl_pc, request, listing, cover_path, made, results>>

\* What a step of the session leaves alone, what a step of the resolver
\* does, and what one of the planner does.
outside_session == <<resolver_vars, planner_vars, tagger_vars, song_vars>>
outside_resolver == <<session_vars, planner_vars, tagger_vars, song_vars>>
outside_planner == <<session_vars, resolver_vars, tagger_vars, song_vars>>
outside_tagger == <<session_vars, resolver_vars, planner_vars, song_vars>>
outside_song == <<session_vars, resolver_vars, planner_vars, tagger_vars>>

vars == <<session_vars, resolver_vars, planner_vars, tagger_vars, song_vars>>

NoPlan == [subdir |-> <<>>, filename |-> <<>>]
NoStats == [total |-> 0, successful |-> 0, failed |-> 0]

\* extract_song_info_from_url's None, and the page of a run without one.
None == [k |-> "none"]
NoPage == [fetch_ok |-> FALSE]

\* The audio files a former run may have left below out_dir.
Leftovers(mp3) ==
    {FinalPath(choose_outputs(e, f), Ext(mp3)) : e \in TrackPool, f \in BOOLEAN}

\* The state of the session's variables before main runs, with "off"
\* for a run in which main never starts.
SessionStart(at, u, mp3, album, left) ==
    /\ pc = at
    /\ url = u
    /\ to_mp3_320 = mp3
    /\ album_layout = album
    /\ subprocess_started = FALSE
    /\ info = NullEntry
    /\ is_playlist = FALSE
    /\ entries = <<>>
    /\ total_tracks = 0
    /\ successful_downloads = 0
    /\ failed_downloads = 0
    /\ idx = 0
    /\ plan = NoPlan
    /\ proc = "none"
    /\ last_percent = 0
    /\ rc = 0
    /\ exists = FALSE
    /\ tag = "none"
    /\ recorded = "none"
    /\ files = left
    /\ dirs = {<<>>}
    /\ tagged = {}
    /\ stats = NoStats
    /\ status = "none"
    /\ outcome = "running"
    /\ exit_code = -1
    /\ zero_exit_no_file = FALSE

SessionIdle == SessionStart("off", "jiosaavn", FALSE, FALSE, {})

\* The resolver and the planner in a run that does not use them.
ResolverIdle == page = NoPage /\ song_info = None /\ resolve_pc = "off"

NoOutputs == [raised |-> FALSE, subdir |-> <<>>, filename |-> <<>>,
              artists |-> <<>>, album |-> <<>>, title |-> <<>>,
              tracknum |-> <<>>]

PlannerStart(at, text, e, other, f) ==
    /\ plan_pc = at
    /\ raw = text
    /\ safe = <<>>
    /\ safe_again = <<>>
    /\ safe_title = <<>>
    /\ item = e
    /\ sibling = other
    /\ force = f
    /\ out = NoOutputs
    /\ out_sibling = NoOutputs

PlannerIdle == PlannerStart("off", <<>>, NullEntry, NullEntry, FALSE)

\* A call of a tagging function: which one, whether the extension of the
\* file is one it knows, whether the file opens, the fields the metadata has
\* a value for, and the fields whose write raises.
Job(fn, known, opens, present, fails) ==
    [fn |-> fn, known |-> known, opens |-> opens,
     present |-> present, fails |-> fails]

NoJob == Job("none", FALSE, FALSE, {}, {})

TaggerStart(at, j) ==
    /\ tag_pc = at
    /\ job = j
    /\ step = 1
    /\ written = {}
    /\ embedded = FALSE
    /\ save_attempted = FALSE
    /\ caught = "none"

\* The file before it is tagged: its extension, and the fields and the
\* number of pictures it holds.
Tags(fields, n) == [fields |-> fields, pictures |-> n]

FileStart(e, f) ==
    /\ ext = e
    /\ pictures = 0
    /\ file = f
    /\ file_first = f
    /\ runs = 0

TaggerIdle == TaggerStart("off", NoJob) /\ FileStart(".flac", Tags({}, 0))

\* A file of output_dir, and the absence of one (None).
File(name, e) == [name |-> name, ext |-> e]
NoFile == File("none", "")

\* extract_song_info's result as process_url reads it: None, a record with
\* the title 'Unknown Title', or a record, with an image_url or without.
Extracted(k, image) == [k |-> k, image |-> image]

SongStart(at, s, f, dir) ==
    /\ dl_pc = at
    /\ song = s
    /\ fmt = f
    /\ listing = dir
    /\ cover_path = NoFile
    /\ made = FALSE
    /\ downloaded_file = NoFile
    /\ tagged_file = NoFile
    /\ success = "none"

SongIdle == SongStart("off", Extracted("none", FALSE), "flac", {})

SessionInit ==
    \E u \in Urls, mp3 \in BOOLEAN, album \in BOOLEAN :
        \E left \in {{}} \cup {{f} : f \in Leftovers(mp3)} :
            SessionStart("main", u, mp3, album, left)

\* The session is over: main returns (or dies) and the process exits.
Finish(how, code) ==
    /\ pc' = "done"
    /\ outcome' = how
    /\ exit_code' = code

\* ------------------------------------------------------------------ main

\* main of src/src/main.py up to its call of process_url: the arguments are
\* parsed and out_dir is made.  No check of args.url is made.
main_calls_process_url ==
    /\ pc = "main"
    /\ pc' = "process_url"
    /\ UNCHANGED <<outside_session, args, subprocess_started, session, tally, idx, track, proc,
                   recorded, disk, report, outcome, exit_code,
                   zero_exit_no_file>>

\* out_dir.mkdir raises: it stands outside main's try, so the process dies
\* with a traceback and status 1.
main_mkdir_raises ==
    /\ pc = "main"
    /\ Finish("crashed", 1)
    /\ UNCHANGED <<outside_session, args, subprocess_started, session, tally, idx, track, proc,
                   recorded, disk, report, zero_exit_no_file>>

\* ------------------------------------------------------------------ probe

\* process_url prints its header and calls probe_info, which starts
\* `yt-dlp --dump-single-json url`.
probe_info_starts ==
    /\ pc = "process_url"
    /\ pc' = "probe"
    /\ subprocess_started' = TRUE
    /\ UNCHANGED <<outside_session, args, session, tally, idx, track, proc, recorded, disk,
                   report, outcome, exit_code, zero_exit_no_file>>

\* process_info taking only the _type marker for a playlist.
process_info_TypeOnly(i) ==
    LET playlist == i.type = "playlist"
        es == IF playlist THEN i.entries ELSE <<i>>
    IN  /\ info' = i
        /\ is_playlist' = playlist
        /\ entries' = es
        /\ IF playlist /\ es = <<>>
           THEN /\ Finish("no_tracks", 0)
                /\ UNCHANGED total_tracks
           ELSE /\ pc' = "loop"
                /\ total_tracks' = Len(es)
                /\ UNCHANGED <<outcome, exit_code>>
        /\ UNCHANGED <<outside_session, args, subprocess_started, tally, idx, track, proc,
                       recorded, disk, report, zero_exit_no_file>>

\* process_url from the probe's answer i (a non-empty dict) to the head of
\* its loop; a playlist without entries ends the session with an error panel.
process_info(i) ==
    LET playlist == i.type = "playlist" \/ i.n_entries > 1
        es == IF playlist THEN i.entries ELSE <<i>>
    IN  /\ info' = i
        /\ is_playlist' = playlist
        /\ entries' = es
        /\ IF playlist /\ es = <<>>
           THEN /\ Finish("no_tracks", 0)
                /\ UNCHANGED total_tracks
           ELSE /\ pc' = "loop"
                /\ total_tracks' = Len(es)
                /\ UNCHANGED <<outcome, exit_code>>
        /\ UNCHANGED <<outside_session, args, subprocess_started, tally, idx, track, proc,
                       recorded, disk, report, zero_exit_no_file>>

\* yt-dlp knows no extractor for an unsupported URL and exits non-zero.
Probes(u) == IF u = "jiosaavn" THEN Infos ELSE {}

\* The first yt-dlp exits 0 and its output parses.
probe_info_returns ==
    /\ pc = "probe"
    /\ \E i \in Probes(url) : process_info(i)

\* The first yt-dlp exits 0 with output json.loads rejects: the
\* JSONDecodeError is no CalledProcessError, leaves probe_info and
\* process_url and is caught by main's `except Exception`.
probe_info_raises ==
    /\ pc = "probe"
    /\ url = "jiosaavn"
    /\ Finish("error", 0)
    /\ UNCHANGED <<outside_session, args, subprocess_started, session, tally, idx, track, proc,
                   recorded, disk, report, zero_exit_no_file>>

\* The first yt-dlp exits non-zero: probe_info starts a second one.
probe_info_retries ==
    /\ pc = "probe"
    /\ pc' = "probe_retry"
    /\ UNCHANGED <<outside_session, args, subprocess_started, session, tally, idx, track, proc,
                   recorded, disk, report, outcome, exit_code,
                   zero_exit_no_file>>

probe_retry_returns ==
    /\ pc = "probe_retry"
    /\ \E i \in Probes(url) : process_info(i)

\* Anything raised by the second attempt is swallowed by the bare except:
\* probe_info returns {} and process_url ends with its error panel.
probe_retry_fails ==
    /\ pc = "probe_retry"
    /\ Finish("no_info", 0)
    /\ UNCHANGED <<outside_session, args, subprocess_started, session, tally, idx, track, proc,
                   recorded, disk, report, zero_exit_no_file>>

\* ------------------------------------------------------------------ loop

\* entry.get("webpage_url") or entry.get("url") or url, as a truth value
\* (args.url is never empty once the probe answered).
TrackUrl(entry) == entry.webpage_url \/ entry.url \/ url # ""

\* subdir and its parents, as mkdir(parents=True) makes them.
Prefixes(dir) == {SubSeq(dir, 1, k) : k \in 0..Len(dir)}

\* A loop that trusted the exit code alone instead of looking for the
\* file.
TrackResult_ByExitCode(found) == IF rc = 0 THEN "succeeded" ELSE "failed"

\* The tally entry of a downloaded track: process_url looks only at
\* final_path.exists().
TrackResult(found) == IF found THEN "succeeded" ELSE "failed"

\* The final status panel.
FinalStatus(total, successful) ==
    IF successful = total THEN "all-succeeded"
    ELSE IF successful > 0 THEN "partial"
    ELSE "all-failed"

\* create_stats_panel's rows.
create_stats_panel(total, successful, failed) ==
    [total |-> total, successful |-> successful, failed |-> failed]

\* The for loop is exhausted.
loop_ends ==
    /\ pc = "loop"
    /\ idx = Len(entries)
    /\ pc' = "summary"
    /\ UNCHANGED <<outside_session, args, subprocess_started, session, tally, idx, track, proc,
                   recorded, disk, report, outcome, exit_code,
                   zero_exit_no_file>>

\* `if not entry: ... continue`: no counter moves.
skip_entry ==
    /\ pc = "loop"
    /\ idx < Len(entries)
    /\ entries[idx + 1].null
    /\ idx' = idx + 1
    /\ recorded' = "skipped"
    /\ UNCHANGED <<outside_session, pc, args, subprocess_started, session, tally, track, proc,
                   disk, report, outcome, exit_code, zero_exit_no_file>>

\* A non-empty entry: without a track URL it is counted failed; otherwise
\* choose_outputs plans it and makes its directory, and
\* download_with_progress starts yt-dlp (run_stream's Popen).  rc, exists
\* and tag describe the track in hand: what the former iteration left in
\* them is never read again and is cleared here.
start_track ==
    /\ pc = "loop"
    /\ idx < Len(entries)
    /\ ~entries[idx + 1].null
    /\ LET entry == entries[idx + 1]
           p == choose_outputs(entry, album_layout \/ is_playlist)
       IN  IF ~TrackUrl(entry)
           THEN /\ failed_downloads' = failed_downloads + 1
                /\ idx' = idx + 1
                /\ recorded' = "no_url"
                /\ UNCHANGED <<pc, successful_downloads, track, proc, dirs,
                               subprocess_started>>
           ELSE /\ ~p.raised
                /\ plan' = [subdir |-> p.subdir, filename |-> p.filename]
                /\ dirs' = dirs \cup Prefixes(p.subdir)
                /\ last_percent' = 0
                /\ proc' = "running"
                /\ subprocess_started' = TRUE
                /\ pc' = "download"
                /\ recorded' = "none"
                /\ rc' = 0
                /\ exists' = FALSE
                /\ tag' = "none"
                /\ UNCHANGED <<tally, idx>>
    /\ UNCHANGED <<outside_session, args, session, files, tagged, report, outcome, exit_code,
                   zero_exit_no_file>>

\* choose_outputs raises, in its join (an artist that is no string) or in
\* subdir.mkdir (the directory cannot be made): nothing in process_url
\* catches it, main's `except Exception` does.
choose_outputs_raises ==
    /\ pc = "loop"
    /\ idx < Len(entries)
    /\ ~entries[idx + 1].null
    /\ TrackUrl(entries[idx + 1])
    /\ LET p == choose_outputs(entries[idx + 1], album_layout \/ is_playlist)
       IN  p.raised \/ p.subdir \notin dirs
    /\ Finish("error", 0)
    /\ UNCHANGED <<outside_session, args, subprocess_started, session, tally, idx, track, proc,
                   recorded, disk, report, zero_exit_no_file>>

\* run_stream yields a line that progress_line_re matches.
progress_line ==
    /\ pc = "download"
    /\ \E pct \in Percents : last_percent' = pct
    /\ UNCHANGED <<outside_session, pc, args, subprocess_started, session, tally, idx, plan, rc,
                   exists, tag, proc, recorded, disk, report, outcome,
                   exit_code, zero_exit_no_file>>

\* download_returns without run_stream's proc.wait(): the exit status is
\* taken while the child may still run.
download_returns_NoWait ==
    /\ pc = "download"
    /\ \E code \in {0, 1}, wrote \in BOOLEAN :
          /\ rc' = code
          /\ files' = IF wrote
                      THEN files \cup {FinalPath(plan, Ext(to_mp3_320))}
                      ELSE files
    /\ proc' = proc
    /\ last_percent' = 0
    /\ pc' = "downloaded"
    /\ UNCHANGED <<outside_session, args, subprocess_started, session, tally, idx, plan,
                   exists, tag, recorded, dirs, tagged, report,
                   outcome, exit_code, zero_exit_no_file>>

\* yt-dlp closes its output and exits with `code`, having written the
\* expected file or not; run_stream yields ("rc", code) and
\* download_with_progress returns it (its local last_percent is gone).
download_returns ==
    /\ pc = "download"
    /\ \E code \in {0, 1}, wrote \in BOOLEAN :
          /\ rc' = code
          /\ files' = IF wrote
                      THEN files \cup {FinalPath(plan, Ext(to_mp3_320))}
                      ELSE files
    /\ proc' = "none"
    /\ last_percent' = 0
    /\ pc' = "downloaded"
    /\ UNCHANGED <<outside_session, args, subprocess_started, session, tally, idx, plan,
                   exists, tag, recorded, dirs, tagged, report,
                   outcome, exit_code, zero_exit_no_file>>

\* The rest of the iteration: final_path.exists() decides; an existing file
\* is tagged (tag_flac / tag_mp3 swallow their own failure and return
\* nothing) and counted.
record_track ==
    /\ pc = "downloaded"
    /\ LET final_path == FinalPath(plan, Ext(to_mp3_320))
           found == final_path \in files
           result == TrackResult(found)
       IN  /\ exists' = found
           /\ \E saved \in BOOLEAN :
                 /\ tag' = IF ~found THEN "none"
                           ELSE IF saved THEN "saved" ELSE "warning"
                 /\ tagged' = IF found /\ saved
                              THEN tagged \cup {final_path} ELSE tagged
           /\ successful_downloads' =
                 successful_downloads + (IF result = "succeeded" THEN 1 ELSE 0)
           /\ failed_downloads' =
                 failed_downloads + (IF result = "failed" THEN 1 ELSE 0)
           /\ recorded' = result
           /\ zero_exit_no_file' = (zero_exit_no_file \/ (rc = 0 /\ ~found))
    /\ idx' = idx + 1
    /\ pc' = "loop"
    /\ UNCHANGED <<outside_session, args, subprocess_started, session, plan, last_percent, rc,
                   proc, files, dirs, report, outcome, exit_code>>

\* create_stats_panel and the final status panel; process_url returns None
\* and so does main.
summarize ==
    /\ pc = "summary"
    /\ stats' = create_stats_panel(total_tracks, successful_downloads,
                                   failed_downloads)
    /\ status' = FinalStatus(total_tracks, successful_downloads)
    /\ Finish("summary", 0)
    /\ UNCHANGED <<outside_session, args, subprocess_started, session, tally, idx, track, proc,
                   recorded, disk, zero_exit_no_file>>

\* ------------------------------------------------------------------ interrupt

\* KeyboardInterrupt between subprocesses: it leaves process_url and main
\* prints "Download interrupted by user" and returns.
interrupt ==
    /\ pc \in {"process_url", "loop", "downloaded", "summary"}
    /\ Finish("interrupted", 0)
    /\ UNCHANGED <<outside_session, args, subprocess_started, session, tally, idx, track, proc,
                   recorded, disk, report, zero_exit_no_file>>

\* KeyboardInterrupt during the first probe: check_output kills its child
\* before the exception leaves it.
interrupt_probe ==
    /\ pc = "probe"
    /\ Finish("interrupted", 0)
    /\ UNCHANGED <<outside_session, args, subprocess_started, session, tally, idx, track, proc,
                   recorded, disk, report, zero_exit_no_file>>

\* KeyboardInterrupt while run_stream reads the download's output: the
\* generator is dropped with its Popen, which nobody terminates or waits
\* for.  The child is gone only if the signal reached it as well.
interrupt_download ==
    /\ pc = "download"
    /\ \E signalled \in BOOLEAN :
          proc' = IF signalled THEN "none" ELSE "orphaned"
    /\ Finish("interrupted", 0)
    /\ UNCHANGED <<outside_session, args, subprocess_started, session, tally, idx, track,
                   recorded, disk, report, zero_exit_no_file>>

\* ------------------------------------------------------------------ session

Next ==
    \/ main_calls_process_url
    \/ main_mkdir_raises
    \/ probe_info_starts
    \/ probe_info_returns
    \/ probe_info_raises
    \/ probe_info_retries
    \/ probe_retry_returns
    \/ probe_retry_fails
    \/ loop_ends
    \/ skip_entry
    \/ start_track
    \/ choose_outputs_raises
    \/ progress_line
    \/ download_returns
    \/ record_track
    \/ summarize
    \/ interrupt
    \/ interrupt_probe
    \/ interrupt_download

Init == SessionInit /\ ResolverIdle /\ PlannerIdle /\ TaggerIdle /\ SongIdle

Spec == Init /\ [][Next]_vars

\* ------------------------------------------------------------------ text of pages

\* s starts with the text p
StartsWith(s, p) == Len(s) >= Len(p) /\ SubSeq(s, 1, Len(p)) = p

\* s.split(sep) for a non-empty sep
RECURSIVE SplitFrom(_, _, _)
SplitFrom(s, sep, part) ==
    IF s = <<>> THEN <<part>>
    ELSE IF StartsWith(s, sep)
         THEN <<part>> \o SplitFrom(SubSeq(s, Len(sep) + 1, Len(s)), sep, <<>>)
         ELSE SplitFrom(Tail(s), sep, Append(part, Head(s)))

Split(s, sep) == SplitFrom(s, sep, <<>>)

\* s.replace(old, new) for one-character old and new
Replace(s, old, new) == [i \in 1..Len(s) |-> IF s[i] = old THEN new ELSE s[i]]

LowerCase == <<"a", "b", "c", "d", "e", "f", "g", "h", "i", "j", "k", "l", "m",
               "n", "o", "p", "q", "r", "s", "t", "u", "v", "w", "x", "y", "z">>
UpperCase == <<"A", "B", "C", "D", "E", "F", "G", "H", "I", "J", "K", "L", "M",
               "N", "O", "P", "Q", "R", "S", "T", "U", "V", "W", "X", "Y", "Z">>

IndexIn(c, letters) ==
    IF \E i \in 1..Len(letters) : letters[i] = c
    THEN CHOOSE i \in 1..Len(letters) : letters[i] = c
    ELSE 0

Cased(c) == IndexIn(c, LowerCase) # 0 \/ IndexIn(c, UpperCase) # 0
Upper(c) == IF IndexIn(c, LowerCase) # 0 THEN UpperCase[IndexIn(c, LowerCase)] ELSE c
Lower(c) == IF IndexIn(c, UpperCase) # 0 THEN LowerCase[IndexIn(c, UpperCase)] ELSE c

\* str.title(): a cased character is upper-cased after an uncased one (or at
\* the start) and lower-cased after a cased one.
Title(s) ==
    [i \in 1..Len(s) |->
        IF i > 1 /\ Cased(s[i - 1]) THEN Lower(s[i]) ELSE Upper(s[i])]

\* The percent escapes the URLs of the model use.
Escapes == {<<"%", "2", "0">>, <<"%", "2", "D">>}
Unescaped(e) == IF e = <<"%", "2", "0">> THEN " " ELSE "-"

\* urllib.parse.unquote, on text whose escapes are among Escapes (any other
\* "%" is left as it is, as unquote leaves a malformed escape)
RECURSIVE unquote(_)
unquote(s) ==
    IF s = <<>> THEN <<>>
    ELSE IF Len(s) >= 3 /\ SubSeq(s, 1, 3) \in Escapes
         THEN <<Unescaped(SubSeq(s, 1, 3))>> \o unquote(SubSeq(s, 4, Len(s)))
         ELSE <<Head(s)>> \o unquote(Tail(s))

\* ------------------------------------------------------------------ resolver

\* What a strategy of extract_song_info_from_url ends with: nothing, a
\* song_data dict, or an exception that leaves it.
Nothing == [r |-> "none"]
Raised == [r |-> "raise"]
Data(d) == [r |-> "data", data |-> d]

\* The image URL of a first_song (strategy 2): the first variant of a list,
\* or the string itself.
SongImage(image_data) ==
    IF image_data.k = "list" /\ image_data.items # <<>>
    THEN IF image_data.items[1].k = "dict"
         THEN Get(image_data.items[1].url, Str(<<>>))
         ELSE py_str(image_data.items[1])
    ELSE IF image_data.k = "str" THEN image_data
    ELSE Str(<<>>)

\* Strategy 1: the script blocks the pattern
\* r'<script type="application/ld\\+json">(.*?)</script>' finds, in order.
\* Only json.JSONDecodeError is caught; data.get on a value that is no dict
\* raises AttributeError.  `matched` says whether the pattern finds the
\* block: as written it asks for one or more backslashes between "ld" and
\* "json", so a block typed application/ld+json is not found.
RECURSIVE ld_json_strategy(_)
ld_json_strategy(blocks) ==
    IF blocks = <<>> THEN Nothing
    ELSE LET b == Head(blocks)
         IN  IF ~b.matched THEN ld_json_strategy(Tail(blocks))
             ELSE IF b.body.k = "invalid" THEN ld_json_strategy(Tail(blocks))
             ELSE IF b.body.k # "object" THEN Raised
             ELSE IF b.body.type = "MusicRecording"
                  THEN Data([name |-> b.body.name,
                             byArtist |-> b.body.byArtist,
                             inAlbum |-> b.body.inAlbum,
                             duration |-> b.body.duration,
                             image |-> b.body.image])
                  ELSE ld_json_strategy(Tail(blocks))

\* s holds the text "songs"
HoldsSongs(s) ==
    \E i \in 1..Len(s) :
        StartsWith(SubSeq(s, i, Len(s)), <<"s", "o", "n", "g", "s">>)

\* Strategy 2: the blob the pattern
\* r'window\\.__INITIAL_DATA__\\s*=\\s*({.*?});' finds.  Only
\* json.JSONDecodeError is caught.  As written the pattern asks for
\* backslashes around __INITIAL_DATA__ and "=", so the assignment a page
\* normally carries ("standard") is not found.
initial_data_strategy(blob) ==
    IF blob.form # "backslashed" THEN Nothing
    ELSE IF blob.body.k = "invalid" THEN Nothing
    ELSE LET e == blob.body.entities
         IN  CASE e = Absent -> Nothing
               [] e.k = "list" ->
                     IF \E i \in 1..Len(e.items) :
                            e.items[i] = Str(<<"s", "o", "n", "g", "s">>)
                     THEN Raised ELSE Nothing
               [] e.k = "str" -> IF HoldsSongs(e.s) THEN Raised ELSE Nothing
               [] e.k = "object" ->
                     LET songs == e.songs
                     IN  CASE songs = Absent -> Nothing
                           [] songs.k = "map" ->
                                 IF songs.values = <<>> THEN Nothing
                                 ELSE LET first_song == songs.values[1]
                                      IN  IF first_song.k # "object" THEN Raised
                                          ELSE Data(
                                            [name |-> Get(first_song.title, Str(UnknownTitle)),
                                             byArtist |-> Get(first_song.primary_artists, Str(UnknownArtist)),
                                             inAlbum |-> Get(first_song.album, Str(UnknownAlbum)),
                                             duration |-> Get(first_song.duration, Str(<<>>)),
                                             image |-> SongImage(GetNone(first_song.image))])
                           [] OTHER -> IF Truthy(songs) THEN Raised ELSE Nothing
               [] OTHER -> Raised

\* Strategy 3: the og:title and og:image meta tags.
og_strategy(og_title, og_image) ==
    IF og_title = Absent THEN Nothing
    ELSE LET parts == Split(og_title.s, Dash)
         IN  Data([name |-> Str(parts[1]),
                   byArtist |-> IF Len(parts) > 1 THEN Str(parts[2])
                                ELSE Str(UnknownArtist),
                   inAlbum |-> Str(UnknownAlbum),
                   duration |-> Str(<<>>),
                   image |-> IF og_image = Absent THEN Str(<<>>) ELSE og_image])

\* byArtist / inAlbum of song_data to a name: a dict gives its name, a
\* string itself, any other truthy value its str().
Named(value, default) ==
    IF value.k = "dict" THEN Get(value.name, Str(default))
    ELSE IF value.k = "str" THEN value
    ELSE IF Truthy(value) THEN py_str(value)
    ELSE Str(default)

\* image of song_data to a URL.
ImageUrl(image_data) ==
    IF image_data.k = "list" /\ image_data.items # <<>>
    THEN IF image_data.items[1].k = "dict"
         THEN Get(image_data.items[1].url, Str(<<>>))
         ELSE py_str(image_data.items[1])
    ELSE IF image_data.k = "str" THEN image_data
    ELSE IF Truthy(image_data) THEN py_str(image_data)
    ELSE Str(<<>>)

SongInfo(title, artist, album, duration, image_url) ==
    [k |-> "info", title |-> title, artist |-> artist, album |-> album,
     duration |-> duration, image_url |-> image_url]

\* The record built from song_data; image_hint is what the pattern
\* r'"image":\s*\[?"([^"]*)' finds in the page (Absent: no match).
FromSongData(song_data, image_hint) ==
    LET image_url == ImageUrl(GetNone(song_data.image))
    IN  SongInfo(Get(song_data.name, Str(UnknownTitle)),
                 Named(GetNone(song_data.byArtist), UnknownArtist),
                 Named(GetNone(song_data.inAlbum), UnknownAlbum),
                 Get(song_data.duration, Str(<<>>)),
                 IF ~Truthy(image_url) /\ image_hint # Absent
                 THEN image_hint ELSE image_url)

\* Strategy 4: the <title> element, else the last segment of the URL path.
Fallback(title_tag, segment) ==
    LET song_name == Title(Replace(unquote(segment), "-", " "))
    IN  SongInfo(IF title_tag # Absent
                 THEN Str(Split(title_tag.s, Dash)[1]) ELSE Str(song_name),
                 Str(UnknownArtist), Str(UnknownAlbum), Str(<<>>), Str(<<>>))

\* extract_song_info_from_url on a page: any exception (of session.get, of
\* raise_for_status, or one that left a strategy) ends in the outer
\* `except Exception`, which returns None.
extract_song_info_from_url(p) ==
    IF ~p.fetch_ok THEN None
    ELSE LET first == ld_json_strategy(p.blocks)
             second == IF first = Nothing THEN initial_data_strategy(p.init)
                       ELSE first
             third == IF second = Nothing THEN og_strategy(p.og_title, p.og_image)
                      ELSE second
         IN  IF Raised \in {first, second} THEN None
             ELSE IF third = Nothing THEN Fallback(p.title_tag, p.segment)
             ELSE FromSongData(third.data, p.image_hint)

\* ------------------------------------------------------------------ pages

\* The most script blocks of a page.
MaxBlocks == 2

Invalid == [k |-> "invalid"]

\* A JSON object of a linked-data block, and one of entities.songs.
Recording(type, name, byArtist, inAlbum, image) ==
    [k |-> "object", type |-> type, name |-> name, byArtist |-> byArtist,
     inAlbum |-> inAlbum, duration |-> Absent, image |-> image]
Song(title, primary_artists, album, image) ==
    [k |-> "object", title |-> title, primary_artists |-> primary_artists,
     album |-> album, duration |-> Absent, image |-> image]

\* window.__INITIAL_DATA__ as the page spells it and the JSON it holds.
Blob(form, body) == [form |-> form, body |-> body]
Entities(e) == [k |-> "object", entities |-> e]
Songs(v) == [k |-> "object", songs |-> v]
Map(values) == [k |-> "map", values |-> values]

Names == {Absent, Null, Str(<<>>), Str(<<"S">>)}
People == {Absent, Null, Str(<<>>), Str(<<"X">>),
           Dict(Str(<<"X">>), Absent), Dict(Absent, Str(<<"u">>)),
           List(<<Str(<<"X">>), Str(<<"Y">>)>>)}
Images == {Absent, Str(<<"i">>), List(<<>>), List(<<Str(<<"i">>)>>),
           List(<<Dict(Absent, Str(<<"i">>))>>)}

ARecording == Recording("MusicRecording", Str(<<"S">>), Str(<<"X">>),
                        Dict(Str(<<"L">>), Absent), Str(<<"i">>))
ASong == Song(Str(<<"T">>), Str(<<"P">>), Str(<<"M">>), Absent)

Block(matched, body) == [matched |-> matched, body |-> body]

\* The blocks a page is put together of: found by the pattern with a body
\* that is no JSON, no dict, a dict of another type or a recording, and a
\* recording in a block typed application/ld+json.
BlockPool ==
    {Block(TRUE, Invalid), Block(TRUE, List(<<>>)),
     Block(TRUE, Recording("WebPage", Absent, Absent, Absent, Absent)),
     Block(TRUE, ARecording), Block(FALSE, ARecording)}

BlobPool ==
    {Blob("none", Invalid), Blob("standard", Entities(Songs(Map(<<ASong>>)))),
     Blob("backslashed", Invalid),
     Blob("backslashed", Entities(Absent)),
     Blob("backslashed", Entities(Null)),
     Blob("backslashed", Entities(Songs(List(<<ASong>>)))),
     Blob("backslashed", Entities(Songs(Map(<<Str(<<"T">>)>>)))),
     Blob("backslashed", Entities(Songs(Map(<<ASong>>))))}

OgTitles == {Absent, Str(<<>>), Str(<<"S">>), Str(<<"S">> \o Dash \o <<"A">>)}
TitleTags == {Absent, Str(<<>>), Str(<<"T">> \o Dash \o <<"J">>)}
Segments == {<<>>, <<"a", "-", "b", "%", "2", "0", "c">>}

Page(fetch_ok, blocks, init, og_title, og_image, title_tag, image_hint, segment) ==
    [fetch_ok |-> fetch_ok, blocks |-> blocks, init |-> init,
     og_title |-> og_title, og_image |-> og_image, title_tag |-> title_tag,
     image_hint |-> image_hint, segment |-> segment]

\* The pages: every arrangement of blocks and blob before the meta tags and
\* the title; every shape of the fields of a recording and of a song; every
\* form of the meta tags, the title and the URL.
Pages ==
    {Page(TRUE, bs, blob, og, Absent, tt, Absent, <<"a">>) :
        bs \in SeqsUpTo(BlockPool, MaxBlocks), blob \in BlobPool,
        og \in {Absent, Str(<<"S">> \o Dash \o <<"A">>)},
        tt \in {Absent, Str(<<"T">>)}}
    \cup {Page(TRUE, <<Block(TRUE, Recording("MusicRecording", n, by, al, im))>>,
               Blob("none", Invalid), Absent, Absent, Absent, hint, <<"a">>) :
        n \in Names, by \in People, al \in People, im \in Images,
        hint \in {Absent, Str(<<"h">>)}}
    \cup {Page(TRUE, <<>>, Blob("backslashed",
                                Entities(Songs(Map(<<Song(n, by, al, im)>>)))),
               Absent, Absent, Absent, Absent, <<"a">>) :
        n \in Names, by \in People, al \in People, im \in Images}
    \cup {Page(TRUE, <<>>, Blob("none", Invalid), og, im, tt, Absent, seg) :
        og \in OgTitles, im \in {Absent, Str(<<"i">>)}, tt \in TitleTags,
        seg \in Segments}

\* ------------------------------------------------------------------ resolving

\* session.get(url) or response.raise_for_status() raises: the outer
\* except returns None.
fetch_fails ==
    /\ resolve_pc = "fetch"
    /\ song_info' = extract_song_info_from_url([page EXCEPT !.fetch_ok = FALSE])
    /\ page' = [page EXCEPT !.fetch_ok = FALSE]
    /\ resolve_pc' = "done"
    /\ UNCHANGED outside_resolver

\* The page arrives and the strategies run.
extract_song_info ==
    /\ resolve_pc = "fetch"
    /\ song_info' = extract_song_info_from_url(page)
    /\ resolve_pc' = "done"
    /\ UNCHANGED <<page, outside_resolver>>

InitResolve ==
    /\ SessionIdle
    /\ PlannerIdle
    /\ TaggerIdle
    /\ SongIdle
    /\ page \in Pages
    /\ song_info = None
    /\ resolve_pc = "fetch"

NextResolve ==
    \/ fetch_fails
    \/ extract_song_info

SpecResolve == InitResolve /\ [][NextResolve]_vars

\* ------------------------------------------------------------------ names

\* The longest text given to sanitize.
MaxName == 4

\* The characters of those texts: a letter, a blank, two disallowed
\* characters and the replacement character.
NameChars == {"a", " ", "/", "?", "_"}

\* re.sub(r'[<>:"/\\|?*]', '', s) of search_and_download: every disallowed
\* character is dropped.
Removed(s) == SelectSeq(s, LAMBDA c : c \notin Disallowed)

\* sanitize(raw), as choose_outputs calls it.
sanitize_name ==
    /\ plan_pc = "sanitize"
    /\ safe' = sanitize(raw)
    /\ plan_pc' = "again"
    /\ UNCHANGED <<outside_planner, raw, safe_again, safe_title, outputs>>

\* sanitize applied to its own result.
sanitize_again ==
    /\ plan_pc = "again"
    /\ safe_again' = sanitize(safe)
    /\ plan_pc' = "title"
    /\ UNCHANGED <<outside_planner, raw, safe, safe_title, outputs>>

\* search_and_download's safe_title / safe_artist of the same text.
search_and_download_names ==
    /\ plan_pc = "title"
    /\ safe_title' = Removed(raw)
    /\ plan_pc' = "done"
    /\ UNCHANGED <<outside_planner, raw, safe, safe_again, outputs>>

InitSanitize ==
    /\ SessionIdle
    /\ ResolverIdle
    /\ TaggerIdle
    /\ SongIdle
    /\ \E text \in SeqsUpTo(NameChars, MaxName) :
          PlannerStart("sanitize", text, NullEntry, NullEntry, FALSE)

NextSanitize ==
    \/ sanitize_name
    \/ sanitize_again
    \/ search_and_download_names

SpecSanitize == InitSanitize /\ [][NextSanitize]_vars

\* ------------------------------------------------------------------ planning

\* The entries given to choose_outputs: every form of the keys it and
\* pick_artists read.
PlanTitles == {<<>>, <<"S", "o", "n", "g">>, <<" ">>, <<"/">>,
               <<" ", "a", "/", "b">>}
PlanArtist == {Absent, Str(<<"A", "l">>), Dict(Str(<<"X">>), Absent)}
PlanArtists == {Absent, List(<<Str(<<>>)>>),
                List(<<Dict(Str(<<"X">>), Absent), Str(<<"Y">>)>>),
                List(<<Dict(Absent, Str(<<"u">>))>>)}
PlanCreator == {Absent, Str(<<"C">>)}
PlanAlbums == {<<>>, <<"B", ":", "b">>}

PlanEntries ==
    {[Entry(title, artist, album, number) EXCEPT
         !.artists = artists, !.creator = creator,
         !.playlist_index = index, !.playlist_autonumber = auto,
         !.type = type] :
        title \in PlanTitles, artist \in PlanArtist, artists \in PlanArtists,
        creator \in PlanCreator, album \in PlanAlbums, number \in {0, 3},
        index \in {0, 12}, auto \in {0, 7}, type \in {"video", "playlist"}}

\* The highest track number of an album.
MaxTrackNumber == 101

\* The tracks of an album, numbered by the given key.
Numbered(title, n, key) ==
    [Entry(title, Str(<<"A", "l">>), <<"B">>, 0) EXCEPT ![key] = n]

NumberedEntries ==
    {Numbered(title, n, "track_number") :
        title \in {<<"a">>, <<"b">>}, n \in 1..MaxTrackNumber}

\* choose_outputs(item, ...): its mkdir is left to the session.
plan_track ==
    /\ plan_pc = "plan"
    /\ out' = choose_outputs(item, force)
    /\ plan_pc' = "sibling"
    /\ UNCHANGED <<outside_planner, names, item, sibling, force, out_sibling>>

\* choose_outputs(sibling, ...)
plan_sibling ==
    /\ plan_pc = "sibling"
    /\ out_sibling' = choose_outputs(sibling, force)
    /\ plan_pc' = "done"
    /\ UNCHANGED <<outside_planner, names, item, sibling, force, out>>

InitPlan ==
    /\ SessionIdle
    /\ ResolverIdle
    /\ TaggerIdle
    /\ SongIdle
    /\ \E e \in PlanEntries, other \in TrackPool, f \in BOOLEAN :
          PlannerStart("plan", <<>>, e, other, f)

\* Two tracks of one album, each with its track number.
InitOrder ==
    /\ SessionIdle
    /\ ResolverIdle
    /\ TaggerIdle
    /\ SongIdle
    /\ \E e \in NumberedEntries, other \in NumberedEntries :
          PlannerStart("plan", <<>>, e, other, TRUE)

NextPlan ==
    \/ plan_track
    \/ plan_sibling

SpecPlan == InitPlan /\ [][NextPlan]_vars

SpecOrder == InitOrder /\ [][NextPlan]_vars

\* The other entries of the playlist an entry stands in: the same artists
\* and album under another title or another track number.
SiblingTitles == PlanTitles \cup {<<"?">>}

Siblings(e) ==
    {[e EXCEPT !.title = t, !.track_number = n] :
        t \in SiblingTitles, n \in {0, 3, 4}} \ {e}

\* Two entries of one playlist.
InitPair ==
    /\ SessionIdle
    /\ ResolverIdle
    /\ TaggerIdle
    /\ SongIdle
    /\ \E e \in PlanEntries :
          \E other \in Siblings(e), f \in BOOLEAN :
             PlannerStart("plan", <<>>, e, other, f)

SpecPair == InitPair /\ [][NextPlan]_vars

\* ----------------------------------------------------------------- tagging
\* tag_flac and tag_mp3 of src/src/metadata.py and _add_metadata of
\* src/jiosaavn_downloader/metadata.py, field by field.  A write of a field
\* either succeeds or raises (mutagen refuses the value, or "; ".join meets
\* an element that is no string); which one is the job's `fails`.

Taggers == {"tag_flac", "tag_mp3", "_add_metadata"}

\* The fields in the order the function writes them.
Fields(fn) ==
    IF fn = "tag_flac"
    THEN <<"TITLE", "ALBUM", "ARTIST", "ALBUMARTIST", "TRACKNUMBER", "DATE", "GENRE">>
    ELSE IF fn = "tag_mp3"
    THEN <<"TIT2", "TALB", "TPE1", "TRCK", "TYER", "TCON">>
    ELSE <<"title", "artist", "album", "cover">>

FieldSet(fn) == {Fields(fn)[i] : i \in 1..Len(Fields(fn))}

\* The fields written without an `if`, or under one that is always true:
\* pick_artists never returns an empty list, and _add_metadata reads
\* song_info['title'], ['artist'] and ['album'] unconditionally.
Required(fn) ==
    IF fn = "tag_flac" THEN {"ARTIST", "ALBUMARTIST"}
    ELSE IF fn = "tag_mp3" THEN {"TPE1"}
    ELSE {"title", "artist", "album"}

\* The writes that stand in a try block of their own.
Guarded(fn, field) == fn = "_add_metadata" /\ field = "cover"

TagJobs(fn) ==
    UNION {{Job(fn, TRUE, opens, present, fails) :
               opens \in BOOLEAN, fails \in SUBSET present} :
           present \in {q \in SUBSET FieldSet(fn) : Required(fn) \subseteq q}}

\* _add_metadata falls through all its branches for any other extension.
UnknownExtension == Job("_add_metadata", FALSE, TRUE, Required("_add_metadata"), {})

Field == Fields(job.fn)[step]

\* How often one file is tagged.
MaxTaggings == 2

\* The extensions _add_metadata has a branch for, and those a function can
\* be called with: process_url calls tag_flac for .flac and tag_mp3 for .mp3.
Extensions == {".flac", ".mp3", ".m4a", ".ogg"}

ExtensionsOf(j) ==
    IF ~j.known THEN {".wav"}
    ELSE IF j.fn = "tag_flac" THEN {".flac"}
    ELSE IF j.fn = "tag_mp3" THEN {".mp3"}
    ELSE Extensions

\* The pictures on the audio object after the cover art is put on it:
\* FLAC.add_picture appends a block; the APIC frame with the description
\* 'Cover', the covr atom and the metadata_block_picture comment replace
\* the one that is there.
AddPicture(e, n) == IF e = ".flac" THEN n + 1 ELSE 1

\* The files a tagging starts from: fresh from yt-dlp, with or without a
\* picture of its own.
Files == {Tags({}, 0), Tags({}, 1)}

\* audio = FLAC(str(path)) / ID3(str(path)) / MP4(file_path) / ...
tag_open ==
    /\ tag_pc = "open"
    /\ job.known
    /\ job.opens
    /\ tag_pc' = "fields"
    /\ pictures' = file.pictures
    /\ UNCHANGED <<outside_tagger, job, step, audio, caught, ext, file, file_first, runs>>

\* Opening the file raises: the function's handler reports it.
tag_open_raises ==
    /\ tag_pc = "open"
    /\ job.known
    /\ ~job.opens
    /\ tag_pc' = "done"
    /\ caught' = "open"
    /\ UNCHANGED <<outside_tagger, job, step, audio, stored>>

\* No branch of _add_metadata matches the extension.
tag_unknown_extension ==
    /\ tag_pc = "open"
    /\ ~job.known
    /\ tag_pc' = "done"
    /\ UNCHANGED <<outside_tagger, job, step, audio, caught, stored>>

\* `if title:` and the like: nothing to write.
tag_skip_field ==
    /\ tag_pc = "fields"
    /\ step <= Len(Fields(job.fn))
    /\ Field \notin job.present
    /\ step' = step + 1
    /\ UNCHANGED <<outside_tagger, tag_pc, job, audio, caught, stored>>

\* audio["TITLE"] = title, audio.add(TIT2(...)), audio['title'] = ...
tag_set_field ==
    /\ tag_pc = "fields"
    /\ step <= Len(Fields(job.fn))
    /\ Field \in job.present \ job.fails
    /\ ~Guarded(job.fn, Field)
    /\ written' = written \cup {Field}
    /\ step' = step + 1
    /\ UNCHANGED <<outside_tagger, tag_pc, job, embedded, save_attempted, caught, stored>>

\* The write raises.  tag_flac and tag_mp3 have one try around the whole
\* body, and _add_metadata has none around its text fields (the caller's
\* handler in add_metadata_to_file prints the error): the rest of the
\* function, audio.save() included, is not run.
tag_field_raises ==
    /\ tag_pc = "fields"
    /\ step <= Len(Fields(job.fn))
    /\ Field \in job.present \cap job.fails
    /\ ~Guarded(job.fn, Field)
    /\ tag_pc' = "done"
    /\ caught' = Field
    /\ UNCHANGED <<outside_tagger, job, step, audio, stored>>

\* The cover art is read and put on the audio object.
tag_embed_cover ==
    /\ tag_pc = "fields"
    /\ step <= Len(Fields(job.fn))
    /\ Field \in job.present \ job.fails
    /\ Guarded(job.fn, Field)
    /\ embedded' = TRUE
    /\ pictures' = AddPicture(ext, pictures)
    /\ step' = step + 1
    /\ UNCHANGED <<outside_tagger, tag_pc, job, written, save_attempted, caught,
                   ext, file, file_first, runs>>

\* Reading or embedding the cover art raises: a warning, and on to save.
tag_cover_raises ==
    /\ tag_pc = "fields"
    /\ step <= Len(Fields(job.fn))
    /\ Field \in job.present \cap job.fails
    /\ Guarded(job.fn, Field)
    /\ step' = step + 1
    /\ UNCHANGED <<outside_tagger, tag_pc, job, audio, caught, stored>>

\* audio.save()
tag_save ==
    /\ tag_pc = "fields"
    /\ step > Len(Fields(job.fn))
    /\ save_attempted' = TRUE
    /\ file' = Tags(file.fields \cup written, pictures)
    /\ tag_pc' = "done"
    /\ UNCHANGED <<outside_tagger, job, step, written, embedded, caught,
                   ext, pictures, file_first, runs>>

\* The same file is tagged once more with the same record, as when the
\* session is run again for the same address.
tag_again ==
    /\ tag_pc = "done"
    /\ runs + 1 < MaxTaggings
    /\ runs' = runs + 1
    /\ file_first' = IF runs = 0 THEN file ELSE file_first
    /\ tag_pc' = "open"
    /\ step' = 1
    /\ written' = {}
    /\ embedded' = FALSE
    /\ save_attempted' = FALSE
    /\ caught' = "none"
    /\ UNCHANGED <<outside_tagger, job, ext, pictures, file>>

InitTag ==
    /\ SessionIdle
    /\ ResolverIdle
    /\ PlannerIdle
    /\ SongIdle
    /\ \E fn \in Taggers :
          \E j \in TagJobs(fn) \cup {UnknownExtension} :
             /\ TaggerStart("open", j)
             /\ \E e \in ExtensionsOf(j), f \in Files : FileStart(e, f)

NextTag ==
    \/ tag_open
    \/ tag_open_raises
    \/ tag_unknown_extension
    \/ tag_skip_field
    \/ tag_set_field
    \/ tag_field_raises
    \/ tag_embed_cover
    \/ tag_cover_raises
    \/ tag_save
    \/ tag_again

SpecTag == InitTag /\ [][NextTag]_vars

\* -------------------------------------------------------------------- song
\* JioSaavnDownloader.process_url of src/jiosaavn_downloader/downloader.py:
\* one song, its cover art, its download by yt-dlp and its tagging.

Formats == {"flac", "mp3"}

\* The file yt-dlp writes for the song, and the temporary cover art.
Product == File("song", fmt)
Cover == File("cover", "jpg")

\* What output_dir may hold before the run.
Others == {File("other", f) : f \in Formats}

Extractions == {Extracted("none", FALSE), Extracted("unknown", FALSE)}
                   \cup {Extracted("valid", image) : image \in BOOLEAN}

\* `if not song_info or song_info['title'] == 'Unknown Title': return False`
process_url_rejects ==
    /\ dl_pc = "start"
    /\ song.k # "valid"
    /\ success' = "False"
    /\ dl_pc' = "returned"
    /\ UNCHANGED <<outside_song, request, listing, cover_path, made,
                   downloaded_file, tagged_file>>

\* No image_url: cover_path stays None.
no_cover_art ==
    /\ dl_pc = "start"
    /\ song.k = "valid"
    /\ ~song.image
    /\ dl_pc' = "search"
    /\ UNCHANGED <<outside_song, request, listing, cover_path, made, results>>

\* download_cover_art: the image is written and returned; or the request
\* fails before the file is opened; or the file is opened and the transfer
\* fails or leaves it empty.  In the last two cases it returns None and
\* process_url resets cover_path.
download_cover_art ==
    /\ dl_pc = "start"
    /\ song.k = "valid"
    /\ song.image
    /\ \E how \in {"saved", "refused", "broken"} :
          /\ listing' = IF how = "refused" THEN listing ELSE listing \cup {Cover}
          /\ cover_path' = IF how = "saved" THEN Cover ELSE NoFile
    /\ dl_pc' = "search"
    /\ UNCHANGED <<outside_song, request, made, results>>

\* The files of the directory with the expected extension: os.listdir
\* gives them in no particular order and the first one is taken.
Candidates(dir, f) == {x \in dir : x.ext = f}

\* What search_and_download returns: the file named in yt-dlp's output if
\* it exists, else any file of the directory with the expected extension,
\* else None.
Found(reported, dir, f) ==
    IF reported /\ File("song", f) \in dir THEN {File("song", f)}
    ELSE IF Candidates(dir, f) # {} THEN Candidates(dir, f)
    ELSE {NoFile}

\* search_and_download: yt-dlp runs to its end, having written the song's
\* file or not and having named it in a line the patterns match or not.
search_and_download ==
    /\ dl_pc = "search"
    /\ \E wrote \in BOOLEAN, reported \in BOOLEAN :
          /\ made' = wrote
          /\ listing' = IF wrote THEN listing \cup {Product} ELSE listing
          /\ downloaded_file' \in Found(reported, listing', fmt)
    /\ dl_pc' = "searched"
    /\ UNCHANGED <<outside_song, request, cover_path, tagged_file, success>>

\* Popen or the reading of its output raises: the handler returns None.
search_and_download_raises ==
    /\ dl_pc = "search"
    /\ downloaded_file' = NoFile
    /\ dl_pc' = "searched"
    /\ UNCHANGED <<outside_song, request, listing, cover_path, made,
                   tagged_file, success>>

\* `if not downloaded_file: ... return False`
download_failed ==
    /\ dl_pc = "searched"
    /\ downloaded_file = NoFile
    /\ success' = "False"
    /\ dl_pc' = "returned"
    /\ UNCHANGED <<outside_song, request, listing, cover_path, made,
                   downloaded_file, tagged_file>>

\* add_metadata(downloaded_file, song_info, cover_path), whose errors
\* add_metadata_to_file swallows; then the cover art is removed and True
\* is returned.
add_metadata ==
    /\ dl_pc = "searched"
    /\ downloaded_file # NoFile
    /\ tagged_file' = downloaded_file
    /\ listing' = IF cover_path # NoFile THEN listing \ {cover_path} ELSE listing
    /\ success' = "True"
    /\ dl_pc' = "returned"
    /\ UNCHANGED <<outside_song, request, cover_path, made, downloaded_file>>

InitSong ==
    /\ SessionIdle
    /\ ResolverIdle
    /\ PlannerIdle
    /\ TaggerIdle
    /\ \E s \in Extractions, f \in Formats, dir \in SUBSET Others :
          SongStart("start", s, f, dir)

NextSong ==
    \/ process_url_rejects
    \/ no_cover_art
    \/ download_cover_art
    \/ search_and_download
    \/ search_and_download_raises
    \/ download_failed
    \/ add_metadata

SpecSong == InitSong /\ [][NextSong]_vars

\* ------------------------------------------------------------------ claims

\* The loop has recorded a downloaded track and rc, exists and tag are that
\* track's.
TrackRecorded == recorded \in {"succeeded", "failed"}

\* C1: a session that entered the track loop and was not interrupted by the
\* user ends with the summary: no per-track failure (an empty entry, a
\* planning error, a failed download, a missing file, a tagging error) ends
\* it before create_stats_panel.
C1_PerTrackFailureReachesSummary ==
    (pc = "done" /\ total_tracks > 0 /\ outcome # "interrupted")
        => outcome = "summary"

\* C2: when the summary is reached every entry of the playlist is in the
\* tally: successful + failed = total.
C2_TallyCoversEveryEntry ==
    outcome = "summary" => stats.successful + stats.failed = stats.total

\* C3: a track whose download returned a non-zero exit code is counted in
\* failed_downloads and not in successful_downloads, whether or not a file
\* stands at the destination.
C3_NonZeroExitCountsFailed ==
    (TrackRecorded /\ rc # 0) => recorded = "failed"

\* C4: a track whose yt-dlp exited 0 without leaving the expected file is
\* counted failed (and only failed), the loop goes on with the next entry,
\* and a summary reached after it reports failed >= 1.
C4_ZeroExitNoFileCountsFailed ==
    /\ [][(/\ pc = "downloaded"
           /\ rc = 0
           /\ FinalPath(plan, Ext(to_mp3_320)) \notin files
           /\ pc' # "done")
          => (/\ failed_downloads' = failed_downloads + 1
              /\ successful_downloads' = successful_downloads
              /\ pc' = "loop"
              /\ idx' = idx + 1)]_vars
    /\ []((TrackRecorded /\ rc = 0 /\ ~exists) => recorded = "failed")
    /\ []((outcome = "summary" /\ zero_exit_no_file) => stats.failed >= 1)

\* C4's case: a download exited 0 and left no file, the session went on,
\* another track succeeded and the summary reports the failure.
C4_Witness ==
    /\ outcome = "summary"
    /\ zero_exit_no_file
    /\ stats.failed >= 1
    /\ stats.successful >= 1

\* C5: a track whose file was downloaded but whose tagging failed is
\* counted in failed_downloads, not in successful_downloads.
C5_TagFailureCountsFailed ==
    (TrackRecorded /\ tag = "warning") => recorded = "failed"

\* C6: the final status is all-succeeded exactly when every track
\* succeeded, all-failed exactly when none did, partial exactly when some
\* succeeded and some failed, and the failed count shown with a partial
\* status is total minus succeeded.
C6_FinalStatusMatchesTally ==
    outcome = "summary" =>
        /\ status = "all-succeeded" <=> stats.successful = stats.total
        /\ status = "all-failed" <=> stats.successful = 0
        /\ status = "partial" <=> (stats.successful >= 1 /\ stats.failed >= 1)
        /\ status = "partial" => stats.failed = stats.total - stats.successful

\* C7: an unsupported URL is rejected before any subprocess is started, and
\* the process then exits with a non-zero status.
C7_UnsupportedUrlRejected ==
    url = "unsupported" =>
        /\ ~subprocess_started
        /\ pc = "done" => exit_code # 0

\* C8: the exit status is 0 when every track succeeded, non-zero when every
\* track failed or nothing could be resolved, and a partial success does
\* not exit with the 0 of a full success.
C8_ExitStatusReflectsOutcome ==
    pc = "done" =>
        /\ status = "all-succeeded" => exit_code = 0
        /\ (status = "all-failed" \/ outcome \in {"no_info", "no_tracks"})
               => exit_code # 0
        /\ status = "partial" => exit_code # 0

\* C9: after a user interrupt no subprocess of the session is alive, and no
\* statistics or status panel was printed.
C9_InterruptKillsDownload ==
    (pc = "done" /\ outcome = "interrupted") =>
        /\ proc = "none"
        /\ stats = NoStats
        /\ status = "none"


\* C10: extract_song_info_from_url returns None only if no strategy could
\* produce data.  The last strategy needs nothing but the URL and the
\* fetched page, so a page that arrived always resolves: a parse or shape
\* error inside a strategy is passed over.
C10_ShapeErrorsFallThrough ==
    (resolve_pc = "done" /\ page.fetch_ok) => song_info # None

\* The first block of the page that declares a MusicRecording, however its
\* script tag is spelled, as song_data; Nothing without one.
RECURSIVE DeclaredRecording(_)
DeclaredRecording(blocks) ==
    IF blocks = <<>> THEN Nothing
    ELSE LET body == Head(blocks).body
         IN  IF body.k = "object" /\ body.type = "MusicRecording"
             THEN Data([name |-> body.name, byArtist |-> body.byArtist,
                        inAlbum |-> body.inAlbum, duration |-> body.duration,
                        image |-> body.image])
             ELSE DeclaredRecording(Tail(blocks))

\* The first song of the page's window.__INITIAL_DATA__, however the
\* assignment is spelled, as song_data; Nothing when the blob is missing or
\* has another shape.
DeclaredSong(blob) ==
    IF /\ blob.form # "none"
       /\ blob.body.k = "object"
       /\ blob.body.entities.k = "object"
       /\ blob.body.entities.songs.k = "map"
       /\ blob.body.entities.songs.values # <<>>
       /\ blob.body.entities.songs.values[1].k = "object"
    THEN LET first_song == blob.body.entities.songs.values[1]
         IN  Data([name |-> Get(first_song.title, Str(UnknownTitle)),
                   byArtist |-> Get(first_song.primary_artists, Str(UnknownArtist)),
                   inAlbum |-> Get(first_song.album, Str(UnknownAlbum)),
                   duration |-> Get(first_song.duration, Str(<<>>)),
                   image |-> SongImage(GetNone(first_song.image))])
    ELSE Nothing

\* The record of the first strategy, in the order linked data, page-init
\* blob, meta tags, URL / <title>, that has structurally valid data.
FirstValid(p) ==
    IF DeclaredRecording(p.blocks) # Nothing
    THEN FromSongData(DeclaredRecording(p.blocks).data, p.image_hint)
    ELSE IF DeclaredSong(p.init) # Nothing
    THEN FromSongData(DeclaredSong(p.init).data, p.image_hint)
    ELSE IF og_strategy(p.og_title, p.og_image) # Nothing
    THEN FromSongData(og_strategy(p.og_title, p.og_image).data, p.image_hint)
    ELSE Fallback(p.title_tag, p.segment)

\* C11: the record of a fetched page is built from the first strategy, in
\* the order (1) MusicRecording block, (2) first song of the page-init
\* blob, (3) og meta tags, (4) URL segment / <title>, that has structurally
\* valid data: a page with a MusicRecording block gets the block's name as
\* title, a page without one but with a page-init blob gets the record of
\* the blob's first song.
C11_FirstValidStrategyWins ==
    (resolve_pc = "done" /\ song_info # None) => song_info = FirstValid(page)

\* A text that is a non-empty string.
NonEmptyText(v) == v.k = "str" /\ v.s # <<>>

\* C12: a record extract_song_info_from_url returns has a non-empty string
\* as title, as artist and as album (all five keys are always there).
C12_RecordIsComplete ==
    (resolve_pc = "done" /\ song_info # None) =>
        /\ DOMAIN song_info = {"k", "title", "artist", "album", "duration",
                               "image_url"}
        /\ NonEmptyText(song_info.title)
        /\ NonEmptyText(song_info.artist)
        /\ NonEmptyText(song_info.album)

\* The name of an artist or album field as the claim normalizes it: a
\* plain string is itself, an object its name, and an absent field or an
\* object without a name the placeholder.
NormalizedName(v, placeholder) ==
    CASE v.k = "str" -> v
      [] v.k = "dict" /\ v.name.k = "str" -> v.name
      [] OTHER -> Str(placeholder)

\* The shapes the claim speaks of.
PlainObjectOrAbsent(v) ==
    \/ v.k \in {"str", "absent"}
    \/ v.k = "dict" /\ v.name.k \in {"str", "absent"}

\* The URL path of the resolver: byArtist and inAlbum of a linked-data
\* recording.
ResolverNormalizes ==
    (resolve_pc = "done" /\ song_info # None
        /\ ld_json_strategy(page.blocks).r = "data") =>
        LET d == ld_json_strategy(page.blocks).data
        IN  /\ PlainObjectOrAbsent(d.byArtist) =>
                   song_info.artist = NormalizedName(d.byArtist, UnknownArtist)
            /\ PlainObjectOrAbsent(d.inAlbum) =>
                   song_info.album = NormalizedName(d.inAlbum, UnknownAlbum)

\* The probe path of the resolver: the artist keys of an entry.
ProbeNormalizes ==
    plan_pc \in {"sibling", "done"} =>
        /\ item.artist # Absent =>
               out.artists = <<NormalizedName(item.artist, UnknownArtist)>>
        /\ (item.artist = Absent /\ item.artists.k = "list") =>
               out.artists = [i \in 1..Len(item.artists.items) |->
                                 NormalizedName(item.artists.items[i],
                                                UnknownArtist)]
        /\ (item.artist = Absent /\ item.artists = Absent
               /\ item.creator = Absent) =>
               out.artists = <<Str(UnknownArtist)>>
        /\ out.album = (IF item.album = <<>> THEN UnknownAlbum ELSE item.album)

\* C13: an artist or album given as the plain string "X", as an object
\* {name: "X"} or not at all is normalized to "X", "X" and the Unknown
\* placeholder, and so is an object without a name, on the URL path
\* (byArtist, inAlbum) and on the probe path (pick_artists).
C13_ArtistAlbumNormalized == ResolverNormalizes /\ ProbeNormalizes

\* The entries of the playlist that are not empty.
Tracks == {i \in 1..Len(entries) : ~entries[i].null}

\* C14: the probe is a playlist exactly when its _type is "playlist" or
\* its n_entries is above 1; the entries are then the probe's entries and
\* otherwise the probe alone; an empty entry is passed over with the tally
\* and the session as they were, the track taken up next is the next
\* non-empty entry planned from that entry alone, and at the summary the
\* tracks counted are exactly the non-empty entries.
C14_PlaylistEntriesProcessed ==
    /\ []((pc \in {"loop", "download", "downloaded", "summary"}
              \/ (pc = "done" /\ info # NullEntry)) =>
             /\ is_playlist = (info.type = "playlist" \/ info.n_entries > 1)
             /\ entries = (IF is_playlist THEN info.entries ELSE <<info>>))
    /\ [][(pc = "loop" /\ idx < Len(entries) /\ entries[idx + 1].null
             /\ idx' = idx + 1) =>
            (/\ UNCHANGED <<tally, outcome, entries>>
             /\ pc' = "loop")]_vars
    /\ [][(pc = "loop" /\ pc' = "download") =>
            (/\ ~entries[idx + 1].null
             /\ plan' = [subdir |-> choose_outputs(entries[idx + 1],
                                      album_layout \/ is_playlist).subdir,
                         filename |-> choose_outputs(entries[idx + 1],
                                      album_layout \/ is_playlist).filename])]_vars
    /\ [](outcome = "summary" =>
             successful_downloads + failed_downloads = Cardinality(Tracks))

\* C14's case: a playlist by its entry count alone, whose first entry is
\* empty and whose second was downloaded, at the summary.
C14_Witness ==
    /\ outcome = "summary"
    /\ info.type # "playlist"
    /\ is_playlist
    /\ Len(entries) >= 2
    /\ entries[1].null
    /\ ~entries[2].null
    /\ successful_downloads >= 1

\* The characters < > : " / \ | ? * a file name must not hold.
Forbidden == {"<", ">", ":", "\"", "/", "\\", "|", "?", "*"}

Clean(s) == \A i \in 1..Len(s) : s[i] \notin Forbidden

\* s neither starts nor ends with whitespace.
Trimmed(s) ==
    s = <<>> \/ (s[1] \notin Whitespace /\ s[Len(s)] \notin Whitespace)

\* C15 as stated: the sanitized text holds no forbidden character,
\* sanitizing it again changes nothing, and a text without forbidden
\* characters is returned unchanged.
C15_SanitizeLeavesCleanNames ==
    plan_pc = "done" =>
        /\ Clean(safe)
        /\ Clean(safe_title)
        /\ safe_again = safe
        /\ Clean(raw) => (safe = raw /\ safe_title = raw)

\* C15, amended: the sanitized text holds no forbidden character,
\* sanitizing it again changes nothing, and a text without forbidden
\* characters is returned with its leading and trailing whitespace
\* stripped by sanitize (so unchanged when it has none) and unchanged by
\* search_and_download.
C15_SanitizeStripsCleanNames ==
    plan_pc = "done" =>
        /\ Clean(safe)
        /\ Clean(safe_title)
        /\ safe_again = safe
        /\ Clean(raw) => (safe = Strip(raw) /\ safe_title = raw)
        /\ (Clean(raw) /\ Trimmed(raw)) => safe = raw

\* C15's case: a text with a forbidden character and a blank in front was
\* sanitized twice.
C15_Witness ==
    /\ plan_pc = "done"
    /\ ~Clean(raw)
    /\ raw[1] = " "
    /\ Len(safe) >= 2
    /\ safe # raw
    /\ safe_again = safe

\* choose_outputs has returned for item.
Planned == plan_pc \in {"sibling", "done"} /\ ~out.raised

\* The track number of an entry: track_number, else playlist_index, else
\* playlist_autonumber; 0 without one.
TrackNumberOf(e) ==
    IF e.track_number # 0 THEN e.track_number
    ELSE IF e.playlist_index # 0 THEN e.playlist_index
    ELSE e.playlist_autonumber

\* A positive number in at least two digits.
TwoDigits(n) == IF n < 10 THEN <<"0", Digit(n)>> ELSE str(n)

CodeOrder ==
    <<" ", "-", "0", "1", "2", "3", "4", "5", "6", "7", "8", "9">>
        \o UpperCase \o <<"_">> \o LowerCase

\* s sorts before t, character by character.
RECURSIVE Before(_, _)
Before(s, t) ==
    IF t = <<>> THEN FALSE
    ELSE IF s = <<>> THEN TRUE
    ELSE IF Head(s) = Head(t) THEN Before(Tail(s), Tail(t))
    ELSE IndexIn(Head(s), CodeOrder) < IndexIn(Head(t), CodeOrder)

\* Both tracks of the album are planned.
BothPlanned == plan_pc = "done" /\ ~out.raised /\ ~out_sibling.raised

\* C17 as stated: of two tracks with track numbers m < n, whatever their
\* size, the stem of track m sorts before the stem of track n.
C17_StemsSortByTrackNumber ==
    (BothPlanned /\ 0 < TrackNumberOf(item)
        /\ TrackNumberOf(item) < TrackNumberOf(sibling)) =>
        Before(out.filename, out_sibling.filename)

\* C17, amended: of two tracks with track numbers m < n <= 99 the stem of
\* track m sorts before the stem of track n.
C17_StemsSortBelowHundred ==
    (BothPlanned /\ 0 < TrackNumberOf(item)
        /\ TrackNumberOf(item) < TrackNumberOf(sibling)
        /\ TrackNumberOf(sibling) <= 99) =>
        Before(out.filename, out_sibling.filename)

\* C17's case: track 9 titled "b" and track 10 titled "a".
C17_Witness ==
    /\ BothPlanned
    /\ TrackNumberOf(item) = 9
    /\ TrackNumberOf(sibling) = 10
    /\ item.title = <<"b">>
    /\ sibling.title = <<"a">>
    /\ Before(out.filename, out_sibling.filename)

\* The album of an entry: album, else album_name, playlist, series, else
\* the placeholder.
AlbumOf(e) ==
    IF e.album # <<>> THEN e.album
    ELSE IF e.album_name # <<>> THEN e.album_name
    ELSE IF e.playlist # <<>> THEN e.playlist
    ELSE IF e.series # <<>> THEN e.series
    ELSE UnknownAlbum

\* C18: the directory of a track is base/<sanitized album> when the album
\* layout is forced or the source is a playlist, and the base directory
\* otherwise; planning a track whose directory stands already yields the
\* same directory, makes nothing new and does not fail.
C18_DirectoryLayout ==
    /\ [](pc = "download" =>
             plan.subdir = (IF album_layout \/ is_playlist
                            THEN <<sanitize(AlbumOf(entries[idx + 1]))>>
                            ELSE <<>>))
    /\ [][(pc = "loop" /\ pc' = "download" /\ idx > 0
             /\ entries[idx] = entries[idx + 1]) =>
            (plan'.subdir = plan.subdir /\ dirs' = dirs)]_vars
    /\ [][(pc = "loop" /\ idx < Len(entries) /\ ~entries[idx + 1].null
             /\ choose_outputs(entries[idx + 1],
                                album_layout \/ is_playlist).subdir \in dirs) =>
            outcome' # "error"]_vars

\* C18's case: the second track of an album is planned into the directory
\* the first one made.
C18_Witness ==
    /\ pc = "download"
    /\ idx > 0
    /\ entries[idx] = entries[idx + 1]
    /\ plan.subdir = <<sanitize(AlbumOf(entries[idx]))>>
    /\ plan.subdir \in dirs

\* C19: choose_outputs never returns an empty filename, and never one whose
\* title part is empty, whatever the title and the artists of the entry.
C19_StemNeverEmpty ==
    Planned => (out.filename # <<>> /\ sanitize(out.title) # <<>>)

\* The tagging function has returned for a file it knows and could open.
TaggingOver == tag_pc = "done" /\ job.known /\ job.opens

\* The fields of the job whose write does not raise.
Writable == job.present \ job.fails

\* C20: a failure of one field's write, or of the cover art, keeps no other
\* field from being written, and save() is attempted in every case.
C20_TaggingIndependence ==
    TaggingOver =>
        /\ save_attempted
        /\ written = Writable \ {"cover"}
        /\ embedded = ("cover" \in Writable)

\* C21: tagging a file a second time with the same record and the same
\* cover art leaves it with the tags and the pictures the first tagging
\* left.
C21_TaggingIdempotent ==
    (tag_pc = "done" /\ runs = 1) => file = file_first

\* A track enters its download, and a track is tagged or counted.
Acquiring == pc = "download"
StartsAcquiring == pc # "download" /\ pc' = "download"
TagsOrRecords ==
    \/ tag' # tag /\ tag' # "none"
    \/ tagged' # tagged
    \/ recorded' \in {"succeeded", "failed"} /\ recorded' # recorded
    \/ tally' # tally /\ pc = "downloaded"

\* C22: each track is planned, then downloaded (the subprocess started and
\* waited for), then tagged and recorded.  Tagging and recording happen
\* only after the subprocess has exited; a track is planned only when the
\* one before it is recorded; no download subprocess is started while
\* another is alive.
C22_TrackPipelineOrder ==
    /\ [](Acquiring <=> (proc = "running"))
    /\ [](pc = "downloaded" => (proc = "none" /\ recorded = "none"))
    /\ [][TagsOrRecords => (pc = "downloaded" /\ proc = "none" /\ pc' = "loop")]_vars
    /\ [][StartsAcquiring =>
            /\ pc = "loop"
            /\ proc = "none"
            /\ idx > 0 => recorded \in {"succeeded", "failed", "skipped", "no_url"}
            /\ plan' = [subdir |-> choose_outputs(entries[idx + 1],
                                                   album_layout \/ is_playlist).subdir,
                         filename |-> choose_outputs(entries[idx + 1],
                                                     album_layout \/ is_playlist).filename]
            /\ idx' = idx]_vars
    /\ [][(pc = "download" /\ pc' # "download") =>
            (pc' = "downloaded" /\ proc' = "none") \/ outcome' = "interrupted"]_vars

\* C22's case: the second track downloads after the first was tagged and
\* recorded.
C22_Witness ==
    /\ pc = "download"
    /\ proc = "running"
    /\ idx = 1
    /\ recorded = "none"
    /\ successful_downloads = 1
    /\ tagged # {}

\* C23: two distinct entries of one playlist are never planned to the same
\* destination (directory and filename; the extension is the session's).
C23_DestinationsDistinct ==
    (BothPlanned /\ item # sibling) =>
        <<out.subdir, out.filename>> # <<out_sibling.subdir, out_sibling.filename>>

\* C24: search_and_download returns a file only if this run's yt-dlp wrote
\* it for the song, and so process_url tags no file that was there before.
C24_ReturnsOnlyOwnFile ==
    /\ downloaded_file # NoFile => (made /\ downloaded_file = Product)
    /\ tagged_file # NoFile => (made /\ tagged_file = Product)

\* C25: when process_url returns after the cover art was downloaded, the
\* temporary cover file is gone.
C25_CoverArtRemoved ==
    (dl_pc = "returned" /\ cover_path # NoFile) => cover_path \notin listing

====
